---- MODULE Spec2Model ----
(***************************************************************************)
(* Model of src/app/page.tsx (ExpenseIncomeManager): the entry collection  *)
(* supplied by useEntries, the six memoised aggregates the page derives    *)
(* from it (totals, currentWeekTotals, categoryTotals, entriesByWeek,      *)
(* chartData, monthlyChartData) and the operations that change them.       *)
(*                                                                         *)
(* A JavaScript Date is modelled by its local calendar day [y, m, d]; the  *)
(* time of day plays no part, every Date the aggregates compare being at   *)
(* local midnight or compared with one.  The setters (setDate, setMonth)   *)
(* carry an out-of-range value into the neighbouring month and year by the *)
(* Gregorian rules, and getDay is derived from the day count since         *)
(* 1970-01-01 (a Thursday).  An entry's date is the string "YYYY-MM-DD",   *)
(* modelled as [y, m, d].  Amounts are whole numbers; sums are exact.      *)
(* now is the clock (what new Date() returns); memoNow is the value of the *)
(* clock read by the last run of the memoised computations.  snapshot is   *)
(* the content of the entries array as useEntries handed it to the page;   *)
(* entries is its content after the memoised computations ran over it.     *)
(* newEntry and isSubmitting are the state of the form; rendered holds the *)
(* values of both that the handlers of the last render closed over;        *)
(* pending holds the entryData of the addEntry calls that have not         *)
(* settled; lastEvent records what handleAddEntry last did.                *)
(***************************************************************************)
EXTENDS Integers, Sequences, FiniteSets, TLC

VARIABLES entries, snapshot, now, memoNow, totals, currentWeekTotals, categoryTotals,
          entriesByWeek, chartData, monthlyChartData,
          newEntry, isSubmitting, rendered, pending, lastEvent

vars == <<entries, snapshot, now, memoNow, totals, currentWeekTotals, categoryTotals,
          entriesByWeek, chartData, monthlyChartData,
          newEntry, isSubmitting, rendered, pending, lastEvent>>

\* ---------------------------------------------------------------- bounds
MaxEntries == 2
WindowDays == 12
MaxLabelled == 3
MaxCharted == 9
MaxSubmitted == 2

\* ------------------------------------------------------ program constants
WeekStartsOn == 4
WorkWeekSpan == 3
ChartWeeks == 8

\* ------------------------------------------------------- calendar (Date)
Date(y, m, d) == [y |-> y, m |-> m, d |-> d]

IsLeapYear(y) == (y % 4 = 0 /\ y % 100 # 0) \/ y % 400 = 0
DaysInMonth(y, m) ==
  IF m = 2 THEN (IF IsLeapYear(y) THEN 29 ELSE 28)
  ELSE IF m \in {4, 6, 9, 11} THEN 30 ELSE 31

RECURSIVE MakeDate(_, _, _)
\* The Date of year y, month m (1..12) and day d, where m and d may lie
\* outside the calendar's ranges: the excess carries into the next or the
\* previous month and year, as the Date setters do.
MakeDate(y, m, d) ==
  IF m > 12 THEN MakeDate(y + 1, m - 12, d)
  ELSE IF m < 1 THEN MakeDate(y - 1, m + 12, d)
  ELSE IF d < 1
       THEN (IF m = 1 THEN MakeDate(y - 1, 12, d + 31)
             ELSE MakeDate(y, m - 1, d + DaysInMonth(y, m - 1)))
  ELSE IF d > DaysInMonth(y, m) THEN MakeDate(y, m + 1, d - DaysInMonth(y, m))
  ELSE Date(y, m, d)

\* The number of days from 1970-01-01 to the calendar day y-m-d.
DaysFromCivil(y, m, d) ==
  LET yy  == IF m <= 2 THEN y - 1 ELSE y
      mp  == IF m > 2 THEN m - 3 ELSE m + 9
  IN  365 * yy + yy \div 4 - yy \div 100 + yy \div 400
        + (153 * mp + 2) \div 5 + d - 1 - 719468

getFullYear(t) == t.y
getMonth(t) == t.m - 1
getDate(t) == t.d
\* 0 is Sunday and 6 is Saturday; 1970-01-01 was a Thursday.
getDay(t) == (DaysFromCivil(t.y, t.m, t.d) + 4) % 7

\* Date.prototype.getTime.  The code reads it only to compare two Dates and
\* to take the sign of a difference, so it is modelled by a number that
\* orders calendar days as their timestamps do.
getTime(t) == (t.y * 12 + (t.m - 1)) * 31 + t.d

\* Date.prototype.setDate
setDate(t, dayValue) == MakeDate(t.y, t.m, dayValue)

\* Date.prototype.setMonth, on a Date whose day of the month is 1
setMonth(t, monthValue) == MakeDate(t.y, monthValue + 1, t.d)

\* createLocalDate(entry.date): the local midnight of the "YYYY-MM-DD" string
createLocalDate(date) == Date(date.y, date.m, date.d)

\* new Date(entry.date).getTime(): the UTC midnight of the string
DateParseTime(date) == getTime(Date(date.y, date.m, date.d))

\* Mutant of startOfWeek: the days before weekStartsOn are not wrapped into
\* the previous week.
startOfWeek_NoWrap(t, weekStartsOn) ==
  LET day  == getDay(t)
      diff == day - weekStartsOn
  IN  setDate(t, getDate(t) - diff)

\* date-fns startOfWeek(date, { weekStartsOn })
startOfWeek(t, weekStartsOn) ==
  LET day  == getDay(t)
      diff == (IF day < weekStartsOn THEN 7 ELSE 0) + day - weekStartsOn
  IN  setDate(t, getDate(t) - diff)

\* date-fns endOfWeek(date, { weekStartsOn }): the last day of that week
endOfWeek(t, weekStartsOn) ==
  LET day  == getDay(t)
      diff == (IF day < weekStartsOn THEN -7 ELSE 0) + 6 - (day - weekStartsOn)
  IN  setDate(t, getDate(t) + diff)

RECURSIVE WeeksFrom_BeforeLast(_, _)
\* Mutant of WeeksFrom: the enumeration stops before the last week.
WeeksFrom_BeforeLast(current, last) ==
  IF getTime(current) >= getTime(last) THEN <<>>
  ELSE <<current>> \o WeeksFrom_BeforeLast(setDate(current, getDate(current) + 7), last)

RECURSIVE WeeksFrom(_, _)
WeeksFrom(current, last) ==
  IF getTime(current) > getTime(last) THEN <<>>
  ELSE <<current>> \o WeeksFrom(setDate(current, getDate(current) + 7), last)

\* date-fns eachWeekOfInterval({ start, end }, { weekStartsOn })
eachWeekOfInterval(start, end, weekStartsOn) ==
  WeeksFrom(startOfWeek(start, weekStartsOn), startOfWeek(end, weekStartsOn))

startOfYear(t) == Date(getFullYear(t), 1, 1)
endOfYear(t) == Date(getFullYear(t), 12, 31)
startOfMonth(t) == setDate(t, 1)
\* Mutant of endOfMonth: the day before the last day of the month.
endOfMonth_DayEarly(t) == MakeDate(getFullYear(t), getMonth(t) + 2, -1)

\* Mutant of endOfMonth: the first day of the next month.
endOfMonth_NextFirst(t) == MakeDate(getFullYear(t), getMonth(t) + 2, 1)

endOfMonth(t) == MakeDate(getFullYear(t), getMonth(t) + 2, 0)

RECURSIVE MonthsFrom(_, _)
MonthsFrom(current, last) ==
  IF getTime(current) > getTime(last) THEN <<>>
  ELSE <<current>> \o MonthsFrom(setMonth(current, getMonth(current) + 1), last)

\* date-fns eachMonthOfInterval({ start, end })
eachMonthOfInterval(start, end) == MonthsFrom(setDate(start, 1), end)

\* Mutant of isWithinInterval: the end of the interval is excluded.
isWithinInterval_OpenEnd(t, start, end) ==
  getTime(t) >= getTime(start) /\ getTime(t) < getTime(end)

\* date-fns isWithinInterval(date, { start, end }): both ends inclusive
isWithinInterval(t, start, end) ==
  getTime(t) >= getTime(start) /\ getTime(t) <= getTime(end)

\* date-fns format with the es locale
MonthAbbrev == <<"ene", "feb", "mar", "abr", "may", "jun",
                 "jul", "ago", "sep", "oct", "nov", "dic">>
FormatMMM(t) == MonthAbbrev[getMonth(t) + 1]
FormatDMMM(t) == <<getDate(t), FormatMMM(t)>>
FormatDDMM(t) == <<getDate(t), getMonth(t) + 1>>

\* ------------------------------------------------------ array helpers
RECURSIVE SumAmounts(_)
\* es.reduce((sum, e) => sum + e.amount, 0)
SumAmounts(es) ==
  IF Len(es) = 0 THEN 0
  ELSE SumAmounts(SubSeq(es, 1, Len(es) - 1)) + es[Len(es)].amount

\* es.filter((e) => e.type === type)
FilterType(es, type) == SelectSeq(es, LAMBDA e : e.type = type)

\* es.filter((e) => e.type === type).reduce((sum, e) => sum + e.amount, 0)
SumOfType(es, type) == SumAmounts(FilterType(es, type))

\* The array a mapping callback builds, each element evaluated once.
Array(f) == SubSeq(f, 1, Len(f))

\* Mutant of Slice: the last n elements are taken.
Slice_Last(s, n) == SubSeq(s, IF Len(s) < n THEN 1 ELSE Len(s) - n + 1, Len(s))

\* Array.prototype.slice(0, n)
Slice(s, n) == SubSeq(s, 1, IF Len(s) < n THEN Len(s) ELSE n)

\* Array.prototype.reverse
Reverse(s) == [i \in 1..Len(s) |-> s[Len(s) + 1 - i]]

\* Math.min(...) and Math.max(...) over a non-empty array of times
MinOf(s) == CHOOSE x \in {s[i] : i \in 1..Len(s)} : \A j \in 1..Len(s) : x <= s[j]
MaxOf(s) == CHOOSE x \in {s[i] : i \in 1..Len(s)} : \A j \in 1..Len(s) : x >= s[j]

\* new Date(time) for the time of one of the Dates of ds
DateOfTime(ds, time) == ds[CHOOSE i \in 1..Len(ds) : getTime(ds[i]) = time]

\* Array.prototype.sort with the comparator (a, b) => b.key - a.key: a stable
\* sort into descending key order.  The elements are [key, val] pairs.
InsertDesc(sorted, x) ==
  LET k == Cardinality({i \in 1..Len(sorted) : sorted[i].key >= x.key})
  IN  SubSeq(sorted, 1, k) \o <<x>> \o SubSeq(sorted, k + 1, Len(sorted))

RECURSIVE SortDesc(_)
SortDesc(s) ==
  IF Len(s) = 0 THEN <<>>
  ELSE InsertDesc(SortDesc(SubSeq(s, 1, Len(s) - 1)), s[Len(s)])

\* weekEntries.sort((a, b) => new Date(b.date).getTime() - new Date(a.date).getTime())
SortEntriesByDateDesc(es) ==
  LET keyed  == Array([i \in 1..Len(es) |-> [key |-> DateParseTime(es[i].date), val |-> es[i]]])
      sorted == SortDesc(keyed)
  IN  [i \in 1..Len(sorted) |-> sorted[i].val]

\* Mutant of SortWeeksDesc: the weeks stay in the order of enumeration.
SortWeeksDesc_Unsorted(ws) == ws

\* weeks.sort((a, b) => b.weekStart.getTime() - a.weekStart.getTime())
SortWeeksDesc(ws) ==
  LET keyed  == [i \in 1..Len(ws) |-> [key |-> getTime(ws[i].weekStart), val |-> ws[i]]]
      sorted == SortDesc(keyed)
  IN  [i \in 1..Len(sorted) |-> sorted[i].val]

\* ------------------------------------------- objects used as mappings
\* A CategoryTotals object is the sequence of its own [name, value] properties
\* in the order Object.entries lists them: canonical array-index keys first,
\* in ascending numeric order, then the other keys in insertion order.
ArrayIndexOf(key) ==
  CASE key = "7" -> 7
    [] key = "10" -> 10
    [] OTHER -> -1

HasKey(obj, key) == \E i \in 1..Len(obj) : obj[i].name = key

\* obj[key] || 0
GetOrZero(obj, key) ==
  IF HasKey(obj, key)
  THEN obj[CHOOSE i \in 1..Len(obj) : obj[i].name = key].value
  ELSE 0

\* obj[key] = value
SetKey(obj, key, value) ==
  IF HasKey(obj, key)
  THEN [i \in 1..Len(obj) |->
          IF obj[i].name = key THEN [name |-> key, value |-> value] ELSE obj[i]]
  ELSE LET idx == ArrayIndexOf(key)
           before == IF idx >= 0
                     THEN Cardinality({i \in 1..Len(obj) :
                            ArrayIndexOf(obj[i].name) >= 0 /\ ArrayIndexOf(obj[i].name) < idx})
                     ELSE Len(obj)
       IN  SubSeq(obj, 1, before) \o <<[name |-> key, value |-> value]>>
             \o SubSeq(obj, before + 1, Len(obj))

\* ------------------------------------------------------------ aggregates
\* Mutant of Totals: the balance subtracts the expenses, not the investments.
Totals_BalanceMinusExpenses(es) ==
  LET gastos      == SumOfType(es, "gasto")
      ingresos    == SumOfType(es, "ingreso")
      inversiones == SumOfType(es, "inversion")
      balance     == ingresos - gastos
  IN  [gastos |-> gastos, ingresos |-> ingresos, inversiones |-> inversiones,
       balance |-> balance]

\* totals (useMemo)
Totals(es) ==
  LET gastos      == SumOfType(es, "gasto")
      ingresos    == SumOfType(es, "ingreso")
      inversiones == SumOfType(es, "inversion")
      balance     == ingresos - inversiones
  IN  [gastos |-> gastos, ingresos |-> ingresos, inversiones |-> inversiones,
       balance |-> balance]

\* Mutant of WeekEndOf: the window runs the whole week, to Wednesday.
WeekEndOf_WholeWeek(weekStart) == setDate(weekStart, getDate(weekStart) + 6)

\* Mutant of WeekEndOf: the window runs to the next Thursday.
WeekEndOf_NextThursday(weekStart) == setDate(weekStart, getDate(weekStart) + 7)

\* Mutant of WeekStartOf: the week starts on Monday.
WeekStartOf_CalendarWeek(t) == startOfWeek(t, 1)

\* The work-week window of a reference date: [weekStart, weekEnd]
WeekStartOf(t) == startOfWeek(t, WeekStartsOn)
WeekEndOf(weekStart) == setDate(weekStart, getDate(weekStart) + WorkWeekSpan)

\* entries.filter((entry) => isWithinInterval(createLocalDate(entry.date), { start, end }))
EntriesWithin(es, start, end) ==
  SelectSeq(es, LAMBDA e : isWithinInterval(createLocalDate(e.date), start, end))

\* Mutant of CurrentWeekTotals: the window starts on the day of the clock.
CurrentWeekTotals_FromNow(es, nowT) ==
  LET weekStart == nowT
      weekEnd   == WeekEndOf(weekStart)
      currentWeekEntries == EntriesWithin(es, weekStart, weekEnd)
      gastos      == SumOfType(currentWeekEntries, "gasto")
      ingresos    == SumOfType(currentWeekEntries, "ingreso")
      inversiones == SumOfType(currentWeekEntries, "inversion")
      balance     == ingresos - inversiones
  IN  [gastos |-> gastos, ingresos |-> ingresos, inversiones |-> inversiones,
       balance |-> balance,
       period |-> <<FormatDMMM(weekStart), FormatDMMM(weekEnd)>>]

\* currentWeekTotals (useMemo), with nowT the value of new Date()
CurrentWeekTotals(es, nowT) ==
  LET weekStart == WeekStartOf(nowT)
      weekEnd   == WeekEndOf(weekStart)
      currentWeekEntries == EntriesWithin(es, weekStart, weekEnd)
      gastos      == SumOfType(currentWeekEntries, "gasto")
      ingresos    == SumOfType(currentWeekEntries, "ingreso")
      inversiones == SumOfType(currentWeekEntries, "inversion")
      balance     == ingresos - inversiones
  IN  [gastos |-> gastos, ingresos |-> ingresos, inversiones |-> inversiones,
       balance |-> balance,
       period |-> <<FormatDMMM(weekStart), FormatDMMM(weekEnd)>>]

RECURSIVE CategoryFold_Overwrite(_, _)
\* Mutant of CategoryFold: a later entry of a category replaces the sum.
CategoryFold_Overwrite(es, type) ==
  IF Len(es) = 0 THEN <<>>
  ELSE LET acc   == CategoryFold_Overwrite(SubSeq(es, 1, Len(es) - 1), type)
           entry == es[Len(es)]
       IN  IF entry.type = type
           THEN SetKey(acc, entry.category, entry.amount)
           ELSE acc

RECURSIVE CategoryFold(_, _)
\* entries.forEach(...) of categoryTotals, for the mapping of one type
CategoryFold(es, type) ==
  IF Len(es) = 0 THEN <<>>
  ELSE LET acc   == CategoryFold(SubSeq(es, 1, Len(es) - 1), type)
           entry == es[Len(es)]
       IN  IF entry.type = type
           THEN SetKey(acc, entry.category, GetOrZero(acc, entry.category) + entry.amount)
           ELSE acc

\* Mutant of CategoryTotals: one mapping is kept for the three types.
CategoryTotals_OneMapping(es) ==
  LET all == CategoryFold([i \in 1..Len(es) |-> [es[i] EXCEPT !.type = "gasto"]], "gasto")
  IN  [gastos |-> all, ingresos |-> all, inversiones |-> all]

\* categoryTotals (useMemo)
CategoryTotals(es) ==
  [gastos      |-> CategoryFold(es, "gasto"),
   ingresos    |-> CategoryFold(es, "ingreso"),
   inversiones |-> CategoryFold(es, "inversion")]

\* The weeks enumerated by entriesByWeek before mapping and filtering
WeeksOf(es) ==
  LET dates   == Array([i \in 1..Len(es) |-> createLocalDate(es[i].date)])
      times   == Array([i \in 1..Len(dates) |-> getTime(dates[i])])
      minDate == DateOfTime(dates, MinOf(times))
      maxDate == DateOfTime(dates, MaxOf(times))
  IN  eachWeekOfInterval(startOfWeek(minDate, WeekStartsOn),
                         endOfWeek(maxDate, WeekStartsOn), WeekStartsOn)

\* The callback of weeks.map in entriesByWeek
WeekBucket(es, weekStart) ==
  LET weekEnd         == WeekEndOf(weekStart)
      weekEntries     == EntriesWithin(es, weekStart, weekEnd)
      weekIngresos    == SumOfType(weekEntries, "ingreso")
      weekGastos      == SumOfType(weekEntries, "gasto")
      weekInversiones == SumOfType(weekEntries, "inversion")
  IN  [weekStart |-> weekStart, weekEnd |-> weekEnd,
       entries |-> SortEntriesByDateDesc(weekEntries),
       ingresos |-> weekIngresos, gastos |-> weekGastos,
       inversiones |-> weekInversiones,
       balance |-> weekIngresos - weekInversiones]

\* Mutant of NonEmptyWeeks: no week is dropped.
NonEmptyWeeks_KeepAll(ws) == ws

\* .filter((week) => week.entries.length > 0)
NonEmptyWeeks(ws) == SelectSeq(ws, LAMBDA week : Len(week.entries) > 0)

\* Mutant of EntriesByWeek: without the guard for the empty array, the week
\* of the epoch is enumerated and kept.
EntriesByWeek_NoGuard(es) ==
  LET weeks == IF Len(es) = 0 THEN <<WeekStartOf(Date(1970, 1, 1))>> ELSE WeeksOf(es)
      all   == Array([i \in 1..Len(weeks) |-> WeekBucket(es, weeks[i])])
  IN  SortWeeksDesc(IF Len(es) = 0 THEN all ELSE NonEmptyWeeks(all))

\* entriesByWeek (useMemo)
EntriesByWeek(es) ==
  IF Len(es) = 0 THEN <<>>
  ELSE LET weeks == WeeksOf(es)
       IN  SortWeeksDesc(NonEmptyWeeks(
             Array([i \in 1..Len(weeks) |-> WeekBucket(es, weeks[i])])))

\* Object.entries(obj).map(([category, amount]) => ({ name: category, value: amount }))
CategorySeries(obj) == [i \in 1..Len(obj) |-> [name |-> obj[i].name, value |-> obj[i].value]]

\* entriesByWeek.slice(0, 8).reverse().map(...)
SemanasData(ebw) ==
  LET recent == Array(Reverse(Slice(ebw, ChartWeeks)))
  IN  [i \in 1..Len(recent) |->
         [name |-> FormatDDMM(recent[i].weekStart), ingresos |-> recent[i].ingresos,
          gastos |-> recent[i].gastos, inversiones |-> recent[i].inversiones]]

\* chartData (useMemo over categoryTotals and entriesByWeek)
ChartData(ct, ebw) ==
  [gastosCategorias      |-> CategorySeries(ct.gastos),
   ingresosCategorias    |-> CategorySeries(ct.ingresos),
   inversionesCategorias |-> CategorySeries(ct.inversiones),
   semanasData           |-> SemanasData(ebw)]

\* The callback of months.map in monthlyChartData
MonthBucket(es, month) ==
  LET monthStart   == startOfMonth(month)
      monthEnd     == endOfMonth(month)
      monthEntries == EntriesWithin(es, monthStart, monthEnd)
  IN  [month |-> FormatMMM(month),
       ingresos |-> SumOfType(monthEntries, "ingreso"),
       gastos |-> SumOfType(monthEntries, "gasto"),
       inversiones |-> SumOfType(monthEntries, "inversion")]

\* Mutant of MonthlyData: months without entries are dropped, as weeks are.
MonthlyData_DropEmpty(es, nowT) ==
  LET months == eachMonthOfInterval(startOfYear(nowT), endOfYear(nowT))
  IN  SelectSeq(Array([i \in 1..Len(months) |-> MonthBucket(es, months[i])]),
                LAMBDA b : b.ingresos + b.gastos + b.inversiones > 0)

\* monthlyData of monthlyChartData, with nowT the value of new Date()
MonthlyData(es, nowT) ==
  LET months == eachMonthOfInterval(startOfYear(nowT), endOfYear(nowT))
  IN  Array([i \in 1..Len(months) |-> MonthBucket(es, months[i])])

\* monthlyChartData (useMemo)
MonthlyChartData(es, nowT) ==
  LET monthlyData == MonthlyData(es, nowT)
  IN  [ingresosData    |-> [i \in 1..Len(monthlyData) |->
                              [x |-> monthlyData[i].month, y |-> monthlyData[i].ingresos]],
       gastosData      |-> [i \in 1..Len(monthlyData) |->
                              [x |-> monthlyData[i].month, y |-> monthlyData[i].gastos]],
       inversionesData |-> [i \in 1..Len(monthlyData) |->
                              [x |-> monthlyData[i].month, y |-> monthlyData[i].inversiones]]]

\* ------------------------------------------------ arrays as heap objects
\* The arrays a run of the memoised computations reads and writes.  A heap is
\* a sequence of arrays and the reference of an array is its index; the
\* entries array is array 1.
\* Mutant of HeapFilterSort: the sort is applied to the source array.
HeapFilterSort_InPlace(heap, src, weekStart) ==
  [heap EXCEPT ![src] = SortEntriesByDateDesc(heap[src])]

\* entries.filter(...) allocates the array weekEntries, and
\* weekEntries.sort(...) sorts that array in place.
HeapFilterSort(heap, src, weekStart) ==
  LET weekEntries == Len(heap) + 1
      filtered    == Append(heap, EntriesWithin(heap[src], weekStart, WeekEndOf(weekStart)))
  IN  [filtered EXCEPT ![weekEntries] = SortEntriesByDateDesc(filtered[weekEntries])]

RECURSIVE HeapAfterWeeks(_, _, _)
\* weeks.map(...): the callback runs for each week in turn
HeapAfterWeeks(heap, src, weeks) ==
  IF Len(weeks) = 0 THEN heap
  ELSE HeapAfterWeeks(HeapFilterSort(heap, src, Head(weeks)), src, Tail(weeks))

\* entriesByWeek.slice(0, 8).reverse(): slice allocates a copy and reverse
\* reverses the copy in place.
HeapSliceReverse(heap, src) ==
  LET copy   == Len(heap) + 1
      sliced == Append(heap, Slice(heap[src], ChartWeeks))
  IN  [sliced EXCEPT ![copy] = Reverse(sliced[copy])]

\* The heap after one run of the memoised computations over the array es.
\* totals, currentWeekTotals, categoryTotals and monthlyChartData call only
\* filter, reduce, forEach and map, which write to no existing array.
HeapAfterMemos(es) ==
  LET start  == <<es>>
      byWeek == IF Len(es) = 0 THEN start ELSE HeapAfterWeeks(start, 1, WeeksOf(es))
      held   == Append(byWeek, EntriesByWeek(es))
  IN  HeapSliceReverse(held, Len(held))

\* The content of the entries array after the run
EntriesAfterMemos(es) == HeapAfterMemos(es)[1]

\* ----------------------------------------------------------- input sets
Types == {"gasto", "ingreso", "inversion"}

\* Thursday 2 May, Sunday 5 May, Monday 6 May and Thursday 9 May 2024
EntryDates == {Date(2024, 5, 2), Date(2024, 5, 5), Date(2024, 5, 6), Date(2024, 5, 9)}

\* The entries a user enters: any type on any of the four dates.  The form's
\* category and amount vary with the date, so that one category name occurs
\* under every type, with both amounts.
CategoryOn(date) == IF date.d \in {2, 6} THEN "Servicios" ELSE "Otros"
AmountOn(date) == IF date.d \in {2, 9} THEN 100 ELSE 40
EntryInputs ==
  {[type |-> t, category |-> CategoryOn(d), amount |-> AmountOn(d), date |-> d] :
     t \in Types, d \in EntryDates}

\* The days on which the page is looked at: Friday 3 May 2024, in the work
\* week of 2 May, and Thursday 2 January 2025, in a later week and year
NowDates == {Date(2024, 5, 3), Date(2025, 1, 2)}

\* Inputs of the work-week specification: runs of WindowDays days, each from
\* a Monday, over the end of February (leap and common year) and the end of
\* the year, with entries dated inside the run the clock is in.
WindowStarts == {Date(2024, 2, 26), Date(2026, 2, 23), Date(2026, 12, 28)}
WindowEntryDates == {Date(2024, 2, 29), Date(2024, 3, 3), Date(2026, 3, 1),
                     Date(2026, 12, 31), Date(2027, 1, 3)}
DayNumber(t) == DaysFromCivil(t.y, t.m, t.d)
InRun(t, s) == DayNumber(s) <= DayNumber(t) /\ DayNumber(t) < DayNumber(s) + WindowDays
\* The type entered varies with the date: the last day of February is an
\* expense, the first day of March an investment, the other days incomes.
TypeOn(date) ==
  CASE date.m = 2 -> "gasto"
    [] date.m = 3 /\ date.d = 1 -> "inversion"
    [] OTHER -> "ingreso"
WindowInputs ==
  {e \in [type : Types, category : {"Otros"}, amount : {100},
          date : WindowEntryDates] :
     /\ e.type = TypeOn(e.date)
     /\ \E s \in WindowStarts : InRun(now, s) /\ InRun(createLocalDate(e.date), s)}

\* Inputs of the category specification: entries of one day whose labels
\* repeat within a type, occur under two types, and are numerals.
Labelled(type, category, amount) ==
  [type |-> type, category |-> category, amount |-> amount, date |-> Date(2024, 5, 2)]
LabelInputs ==
  {Labelled("gasto", "Gas", 30), Labelled("gasto", "Gas", 20),
   Labelled("gasto", "Agua", 10), Labelled("ingreso", "Gas", 20),
   Labelled("gasto", "10", 10), Labelled("gasto", "7", 20)}

\* Inputs of the chart specification: the k-th entry entered is dated in the
\* k-th work week of a run of weeks from Thursday 2 May 2024 in which the
\* fourth week is left out, on a day of that week, type and amount varying
\* with k.
ChartEntry(k) ==
  LET week == (k - 1) + (IF k > 3 THEN 1 ELSE 0)
      type == CASE k % 3 = 0 -> "gasto" [] k % 3 = 1 -> "ingreso" [] OTHER -> "inversion"
  IN  [type |-> type, category |-> "Otros", amount |-> 10 * k,
       date |-> MakeDate(2024, 5, 2 + 7 * week + (k % 4))]
ChartInputs == {ChartEntry(Len(entries) + 1)}

\* The values the user gives to the fields of the form
FormTypes == {"gasto", "ingreso"}
FormCategories == {"Otros"}
FormAmounts == {"100"}
FormDates == {Date(2024, 5, 2)}
FormDescriptions == {"nota"}

\* ----------------------------------------------------------- operations
InsertAt(s, pos, e) == SubSeq(s, 1, pos) \o <<e>> \o SubSeq(s, pos + 1, Len(s))
RemoveAt(s, i) == SubSeq(s, 1, i - 1) \o SubSeq(s, i + 1, Len(s))

\* A render in which useEntries returns the new array es: every useMemo whose
\* dependency list holds entries runs again, reading the clock where it does;
\* chartData runs again over the new categoryTotals and entriesByWeek.
Render(es) ==
  /\ snapshot' = es
  /\ entries' = EntriesAfterMemos(es)
  /\ memoNow' = now
  /\ totals' = Totals(es)
  /\ currentWeekTotals' = CurrentWeekTotals(es, now)
  /\ categoryTotals' = CategoryTotals(es)
  /\ entriesByWeek' = EntriesByWeek(es)
  /\ chartData' = ChartData(categoryTotals', entriesByWeek')
  /\ monthlyChartData' = MonthlyChartData(es, now)
  /\ UNCHANGED now

\* getCurrentDateString(): today's date as "YYYY-MM-DD"
getCurrentDateString(nowT) == Date(nowT.y, nowT.m, nowT.d)

\* formatDateForStorage(newEntry.date)
formatDateForStorage(date) == Date(date.y, date.m, date.d)

\* Number.parseFloat of the text of the amount field
ParseFloat(text) == CASE text = "100" -> 100 [] text = "40" -> 40

\* The form as useState creates it and as handleAddEntry resets it
EmptyForm(nowT) ==
  [type |-> "gasto", category |-> "", amount |-> "",
   date |-> getCurrentDateString(nowT), description |-> ""]

InitAt(nowT) ==
  /\ newEntry = EmptyForm(nowT)
  /\ isSubmitting = FALSE
  /\ rendered = [newEntry |-> EmptyForm(nowT), isSubmitting |-> FALSE]
  /\ pending = <<>>
  /\ lastEvent = "none"
  /\ entries = <<>>
  /\ snapshot = <<>>
  /\ now = nowT
  /\ memoNow = nowT
  /\ totals = Totals(<<>>)
  /\ currentWeekTotals = CurrentWeekTotals(<<>>, nowT)
  /\ categoryTotals = CategoryTotals(<<>>)
  /\ entriesByWeek = EntriesByWeek(<<>>)
  /\ chartData = ChartData(categoryTotals, entriesByWeek)
  /\ monthlyChartData = MonthlyChartData(<<>>, nowT)

\* addEntry(entryData) succeeded: the collection holds one more entry, first
\* or last in the array
\* The form is as it was: no handler of the form runs.
FormIdle == UNCHANGED <<newEntry, isSubmitting, rendered, pending, lastEvent>>

\* addEntry(entryData) succeeded for a form filled in and reset in the same
\* step.
AddEntryUpTo(inputs, max) ==
  /\ FormIdle
  /\ Len(entries) < max
  /\ \E e \in inputs : \E pos \in {0, Len(entries)} :
         Render(InsertAt(entries, pos, e))

AddEntry(inputs) == AddEntryUpTo(inputs, MaxEntries)

\* updateEntry, handed to EditEntryDialog: one entry is replaced
UpdateEntry(inputs) ==
  \E i \in 1..Len(entries) : \E e \in inputs :
    /\ FormIdle
    /\ e # entries[i]
    /\ Render([entries EXCEPT ![i] = e])

\* handleDeleteEntry(id): one entry is removed
DeleteEntry ==
  /\ FormIdle
  /\ \E i \in 1..Len(entries) : Render(RemoveAt(entries, i))

\* refetch(): the collection is loaded again, into a new array
Refetch == FormIdle /\ Render(entries)

\* Time passes and the page renders again with the same entries array: no
\* useMemo runs, whatever the clock says now.
Tick(later) ==
  /\ FormIdle
  /\ \E t \in later : getTime(t) > getTime(now) /\ now' = t
  /\ UNCHANGED <<entries, snapshot, memoNow, totals, currentWeekTotals, categoryTotals,
                 entriesByWeek, chartData, monthlyChartData>>

Init == InitAt(Date(2024, 5, 3))

Next ==
  \/ AddEntry(EntryInputs)
  \/ UpdateEntry(EntryInputs)
  \/ DeleteEntry
  \/ Refetch
  \/ Tick(NowDates)

Spec == Init /\ [][Next]_vars

\* The work-week specification: the page is opened on any day of three
\* fortnights and the clock advances a day at a time.
InitWindow == \E s \in WindowStarts : InitAt(s)

NextDay == {t \in {setDate(now, getDate(now) + 1)} : \E s \in WindowStarts : InRun(now, s) /\ InRun(t, s)}

NextWindow ==
  \/ AddEntry(WindowInputs)
  \/ UpdateEntry(WindowInputs)
  \/ DeleteEntry
  \/ Refetch
  \/ Tick(NextDay)

SpecWindow == InitWindow /\ [][NextWindow]_vars

\* The category specification: entries with the labels of LabelInputs.
NextLabels ==
  \/ AddEntryUpTo(LabelInputs, MaxLabelled)
  \/ UpdateEntry(LabelInputs)
  \/ DeleteEntry
  \/ Refetch

SpecLabels == Init /\ [][NextLabels]_vars

\* The chart specification: entries of successive weeks are entered, each
\* placed first or last in the array.
NextChart ==
  \/ AddEntryUpTo(ChartInputs, MaxCharted)
  \/ Refetch

SpecChart == Init /\ [][NextChart]_vars

\* ------------------------------------------------------ the entry form
\* What a render makes of the page's state: the values its handlers close over
Closure(form, submitting) == [newEntry |-> form, isSubmitting |-> submitting]

\* A field's onChange / onValueChange: setNewEntry({ ...newEntry, ... }) in a
\* React event, rendered before the next event.  The fields are disabled
\* while the rendered isSubmitting is true.
SetNewEntry(form) ==
  /\ ~rendered.isSubmitting
  /\ form # newEntry
  /\ newEntry' = form
  /\ rendered' = Closure(form, isSubmitting)
  /\ lastEvent' = "edited"
  /\ UNCHANGED <<entries, snapshot, now, memoNow, totals, currentWeekTotals,
                 categoryTotals, entriesByWeek, chartData, monthlyChartData,
                 isSubmitting, pending>>

ChangeType ==
  \E value \in FormTypes :
    SetNewEntry([rendered.newEntry EXCEPT !.type = value, !.category = ""])
ChangeCategory ==
  \E value \in FormCategories : SetNewEntry([rendered.newEntry EXCEPT !.category = value])
ChangeAmount ==
  \E value \in FormAmounts : SetNewEntry([rendered.newEntry EXCEPT !.amount = value])
ChangeDate ==
  \E value \in FormDates : SetNewEntry([rendered.newEntry EXCEPT !.date = value])
ChangeDescription ==
  \E value \in FormDescriptions :
    SetNewEntry([rendered.newEntry EXCEPT !.description = value])

\* Mutant of GuardReturns: isSubmitting is not looked at.
GuardReturns_FormOnly(form, submitting) == form.category = "" \/ form.amount = ""

\* if (!newEntry.category || !newEntry.amount || isSubmitting) return
GuardReturns(form, submitting) == form.category = "" \/ form.amount = "" \/ submitting

\* entryData; description: newEntry.description || undefined
EntryData(form) ==
  LET data == [type |-> form.type, category |-> form.category,
               amount |-> ParseFloat(form.amount),
               date |-> formatDateForStorage(form.date)]
  IN  IF form.description = "" THEN data
      ELSE [type |-> data.type, category |-> data.category, amount |-> data.amount,
            date |-> data.date, description |-> form.description]

\* handleAddEntry up to its await, invoked whether or not the button shows
\* as disabled: the guard, setIsSubmitting(true) and the call of addEntry.
\* It runs in a React event: the page is rendered before the next event.
HandleAddEntry ==
  IF GuardReturns(rendered.newEntry, rendered.isSubmitting)
  THEN /\ lastEvent' = "returned"
       /\ UNCHANGED <<entries, snapshot, now, memoNow, totals, currentWeekTotals,
                      categoryTotals, entriesByWeek, chartData, monthlyChartData,
                      newEntry, isSubmitting, rendered, pending>>
  ELSE /\ Len(entries) + Len(pending) < MaxSubmitted
       /\ isSubmitting' = TRUE
       /\ pending' = Append(pending, EntryData(rendered.newEntry))
       /\ rendered' = Closure(newEntry, TRUE)
       /\ lastEvent' = "called"
       /\ UNCHANGED <<entries, snapshot, now, memoNow, totals, currentWeekTotals,
                      categoryTotals, entriesByWeek, chartData, monthlyChartData,
                      newEntry>>

\* Mutant of FormAfter: the form is reset whatever addEntry returned.
FormAfter_AlwaysReset(outcome, form, nowT) == EmptyForm(nowT)

\* if (result) { setNewEntry({ ... }) }
FormAfter(outcome, form, nowT) == IF outcome = "truthy" THEN EmptyForm(nowT) ELSE form

\* Mutant of SubmittingAfter: the reset is skipped when addEntry throws.
SubmittingAfter_NoFinally(outcome) == outcome = "throws"

\* finally { setIsSubmitting(false) }
SubmittingAfter(outcome) == FALSE

\* addEntry settles and handleAddEntry runs from its await to its end.  When
\* addEntry succeeded the collection holds the new entry, and the page was
\* rendered with it before handleAddEntry went on; the state that
\* handleAddEntry sets then is rendered later.
AddEntrySettles(outcome) ==
  /\ Len(pending) > 0
  /\ pending' = Tail(pending)
  /\ newEntry' = FormAfter(outcome, newEntry, now)
  /\ isSubmitting' = SubmittingAfter(outcome)
  /\ lastEvent' = outcome
  /\ UNCHANGED rendered
  /\ IF outcome = "truthy"
     THEN \E pos \in {0, Len(entries)} : Render(InsertAt(entries, pos, Head(pending)))
     ELSE UNCHANGED <<entries, snapshot, now, memoNow, totals, currentWeekTotals,
                      categoryTotals, entriesByWeek, chartData, monthlyChartData>>

AddEntryResolves == AddEntrySettles("truthy")
AddEntryFails == AddEntrySettles("falsy")
AddEntryThrows == AddEntrySettles("throws")

\* The render that follows the state handleAddEntry set after its await
RenderForm ==
  /\ rendered # Closure(newEntry, isSubmitting)
  /\ rendered' = Closure(newEntry, isSubmitting)
  /\ UNCHANGED <<entries, snapshot, now, memoNow, totals, currentWeekTotals,
                 categoryTotals, entriesByWeek, chartData, monthlyChartData,
                 newEntry, isSubmitting, pending, lastEvent>>

\* The form specification: the user fills in the form and invokes
\* handleAddEntry at any time; addEntry settles in any of its three ways.
NextForm ==
  \/ ChangeType
  \/ ChangeCategory
  \/ ChangeAmount
  \/ ChangeDate
  \/ ChangeDescription
  \/ HandleAddEntry
  \/ AddEntryResolves
  \/ AddEntryFails
  \/ AddEntryThrows
  \/ RenderForm

SpecForm == Init /\ [][NextForm]_vars

\* The form specification in which every call of addEntry settles
SpecFormFair ==
  SpecForm /\ WF_vars(AddEntryFails \/ AddEntryThrows \/ AddEntryResolves)

\* ------------------------------------- definitions used to state properties
\* The calendar day with day number n (the inverse of DaysFromCivil).
CivilFromDays(n) ==
  LET z   == n + 719468
      era == z \div 146097
      doe == z - era * 146097
      yoe == (doe - doe \div 1460 + doe \div 36524 - doe \div 146096) \div 365
      doy == doe - (365 * yoe + yoe \div 4 - yoe \div 100)
      mp  == (5 * doy + 2) \div 153
      d   == doy - (153 * mp + 2) \div 5 + 1
      m   == IF mp < 10 THEN mp + 3 ELSE mp - 9
      y   == yoe + era * 400 + (IF m <= 2 THEN 1 ELSE 0)
  IN  Date(y, m, d)

\* Sunday = 0 .. Saturday = 6
Weekday(t) == (DayNumber(t) + 4) % 7
Thursday == 4

\* The work week of day t, by day numbers: its Thursday and its Sunday
WorkWeekStart(t) == DayNumber(t) - ((Weekday(t) - Thursday + 7) % 7)
WorkWeekEnd(t) == WorkWeekStart(t) + 3
InWorkWeekOf(date, t) ==
  DayNumber(date) >= WorkWeekStart(t) /\ DayNumber(date) <= WorkWeekEnd(t)

RECURSIVE SumAt(_, _)
\* The sum of the amounts of the entries of es at the positions in idx
SumAt(es, idx) ==
  IF idx = {} THEN 0
  ELSE LET i == CHOOSE j \in idx : TRUE
       IN  es[i].amount + SumAt(es, idx \ {i})

Positions(es) == 1..Len(es)
OfType(es, type) == {i \in Positions(es) : es[i].type = type}
InCurrentWeek(es, t) == {i \in Positions(es) : InWorkWeekOf(es[i].date, t)}
InMonth(es, year, month) ==
  {i \in Positions(es) : es[i].date.y = year /\ es[i].date.m = month}

\* es without its expense entries
WithoutExpenses(es) == SelectSeq(es, LAMBDA e : e.type # "gasto")

BalanceRule(t, es, idx) ==
  t.balance = SumAt(es, idx \cap OfType(es, "ingreso"))
                - SumAt(es, idx \cap OfType(es, "inversion"))

\* C1: in totals, in currentWeekTotals and in every week bucket, balance is
\* the income sum minus the investment sum of the same entries, and it is
\* the balance of the entry set without its expense entries.
C1_BalanceIsIncomeMinusInvestment ==
  LET bare == WithoutExpenses(entries)
      bareWeeks == EntriesByWeek(bare)
  IN  /\ BalanceRule(totals, entries, Positions(entries))
      /\ totals.balance = totals.ingresos - totals.inversiones
      /\ totals.balance = Totals(bare).balance
      /\ BalanceRule(currentWeekTotals, entries, InCurrentWeek(entries, memoNow))
      /\ currentWeekTotals.balance
           = currentWeekTotals.ingresos - currentWeekTotals.inversiones
      /\ currentWeekTotals.balance = CurrentWeekTotals(bare, memoNow).balance
      /\ \A k \in 1..Len(entriesByWeek) :
           LET week == entriesByWeek[k]
           IN  /\ BalanceRule(week, week.entries, Positions(week.entries))
               /\ week.balance = week.ingresos - week.inversiones
               /\ \/ \A i \in Positions(week.entries) : week.entries[i].type = "gasto"
                  \/ \E j \in 1..Len(bareWeeks) :
                       /\ bareWeeks[j].weekStart = week.weekStart
                       /\ bareWeeks[j].balance = week.balance
      /\ \A j \in 1..Len(bareWeeks) :
           \E k \in 1..Len(entriesByWeek) :
             entriesByWeek[k].weekStart = bareWeeks[j].weekStart

\* An expense and an income in the current work week: every balance is the
\* income, whatever the expense.
C1_Witness ==
  /\ totals.gastos > 0 /\ totals.ingresos > 0 /\ totals.balance = totals.ingresos
  /\ currentWeekTotals.gastos > 0 /\ currentWeekTotals.balance > 0
  /\ \E k \in 1..Len(entriesByWeek) :
       entriesByWeek[k].gastos > 0 /\ entriesByWeek[k].balance > 0

RECURSIVE SumValues(_)
SumValues(obj) ==
  IF Len(obj) = 0 THEN 0 ELSE obj[1].value + SumValues(Tail(obj))

IsMonToWed(date) == Weekday(date) \in {1, 2, 3}

ThursdayIncome == [type |-> "ingreso", category |-> "Servicios", amount |-> 100,
                   date |-> Date(2024, 5, 2)]
MondayExpense == [type |-> "gasto", category |-> "Servicios", amount |-> 40,
                  date |-> Date(2024, 5, 6)]

\* C3: an entry dated Monday, Tuesday or Wednesday is in no week bucket and
\* in no bucket's sums, and it is counted in totals; for an income of 100 on
\* Thursday 2024-05-02 and an expense of 40 on Monday 2024-05-06 there is one
\* bucket, starting 2024-05-02, with income 100 and expense 0.
C3_MondayToWednesdayExcluded ==
  /\ \A k \in 1..Len(entriesByWeek) :
       LET week == entriesByWeek[k]
           kept == Positions(week.entries)
       IN  /\ \A i \in kept : ~IsMonToWed(week.entries[i].date)
           /\ week.gastos = SumAt(week.entries, OfType(week.entries, "gasto"))
           /\ week.ingresos = SumAt(week.entries, OfType(week.entries, "ingreso"))
           /\ week.inversiones = SumAt(week.entries, OfType(week.entries, "inversion"))
  /\ totals.gastos = SumAt(entries, OfType(entries, "gasto"))
  /\ totals.ingresos = SumAt(entries, OfType(entries, "ingreso"))
  /\ totals.inversiones = SumAt(entries, OfType(entries, "inversion"))
  /\ entries \in {<<ThursdayIncome, MondayExpense>>, <<MondayExpense, ThursdayIncome>>}
       => /\ totals = [gastos |-> 40, ingresos |-> 100, inversiones |-> 0,
                       balance |-> 100]
          /\ Len(entriesByWeek) = 1
          /\ entriesByWeek[1].weekStart = Date(2024, 5, 2)
          /\ entriesByWeek[1].ingresos = 100
          /\ entriesByWeek[1].gastos = 0
          /\ entriesByWeek[1].entries = <<ThursdayIncome>>

C3_Witness == entries = <<ThursdayIncome, MondayExpense>> /\ Len(entriesByWeek) = 1

\* C4: no bucket of entriesByWeek has an empty entries array, and an
\* enumerated week whose Thursday-to-Sunday filter matches no entry has no
\* bucket.
C4_NoEmptyWeekBucket ==
  /\ \A k \in 1..Len(entriesByWeek) : Len(entriesByWeek[k].entries) > 0
  /\ Len(entries) > 0 =>
       \A w \in 1..Len(WeeksOf(entries)) :
         LET weekStart == WeeksOf(entries)[w]
         IN  (\A i \in Positions(entries) : ~InWorkWeekOf(entries[i].date, weekStart))
               => \A k \in 1..Len(entriesByWeek) :
                    entriesByWeek[k].weekStart # weekStart

\* Entries on Monday 6 May and Thursday 9 May: the week of 2 May is
\* enumerated, matches no entry and is dropped.
C4_Witness ==
  /\ Len(entries) = 2
  /\ Len(WeeksOf(entries)) = 2
  /\ Len(entriesByWeek) = 1
  /\ entriesByWeek[1].weekStart = Date(2024, 5, 9)

MonthSeriesOk(series, type) ==
  /\ Len(series) = 12
  /\ \A m \in 1..12 :
       /\ series[m].x = MonthAbbrev[m]
       /\ series[m].y = SumAt(entries, InMonth(entries, memoNow.y, m) \cap OfType(entries, type))

\* C5: the monthly data always has the 12 months January..December of the
\* current year, in that order; a month without entries has the value 0.
C5_TwelveMonths ==
  /\ Len(MonthlyData(entries, memoNow)) = 12
  /\ MonthSeriesOk(monthlyChartData.ingresosData, "ingreso")
  /\ MonthSeriesOk(monthlyChartData.gastosData, "gasto")
  /\ MonthSeriesOk(monthlyChartData.inversionesData, "inversion")

\* Entries of 2024 looked at in 2025: twelve months, all 0.
C5_Witness ==
  /\ Len(entries) > 0
  /\ memoNow.y = 2025
  /\ Len(monthlyChartData.gastosData) = 12
  /\ \A m \in 1..12 : /\ monthlyChartData.ingresosData[m].y = 0
                      /\ monthlyChartData.gastosData[m].y = 0
                      /\ monthlyChartData.inversionesData[m].y = 0

\* The aggregates that read only the entries (and each other)
SnapshotAggregates == <<totals, categoryTotals, entriesByWeek, chartData>>

\* C6 as stated: a step that leaves the entry snapshot as it is leaves every
\* aggregate as it is, so that two computations from one snapshot agree.
C6_SnapshotAlone ==
  [][entries' = entries =>
       /\ SnapshotAggregates' = SnapshotAggregates
       /\ currentWeekTotals' = currentWeekTotals
       /\ monthlyChartData' = monthlyChartData]_vars

\* C6, amended: computed again from the same snapshot, totals,
\* categoryTotals, entriesByWeek and chartData are the same; currentWeekTotals
\* is the same when the clock read is in the same work week, and
\* monthlyChartData when it is in the same year.
C6_SnapshotAndClock ==
  [][entries' = entries =>
       /\ SnapshotAggregates' = SnapshotAggregates
       /\ WorkWeekStart(memoNow') = WorkWeekStart(memoNow)
            => currentWeekTotals' = currentWeekTotals
       /\ memoNow'.y = memoNow.y => monthlyChartData' = monthlyChartData]_vars

\* The entries of 31 December 2026 and 3 January 2027, computed on Friday
\* 1 January 2027 after the page was opened in December: both are in the
\* work week, one is in the year.
C6_Witness ==
  /\ Len(entries) = 2
  /\ memoNow = Date(2027, 1, 1)
  /\ currentWeekTotals.ingresos = 200
  /\ monthlyChartData.ingresosData[1].y = 100
  /\ monthlyChartData.ingresosData[12].y = 0

ZeroSeries(series) == Len(series) = 12 /\ \A m \in 1..12 : series[m].y = 0

\* C7: for the empty entry set totals is all 0, entriesByWeek is empty, the
\* monthly data has 12 entries of value 0, and the category series and the
\* weekly series of the charts are empty.
C7_EmptyEntrySet ==
  entries = <<>> =>
    /\ totals = [gastos |-> 0, ingresos |-> 0, inversiones |-> 0, balance |-> 0]
    /\ entriesByWeek = <<>>
    /\ Len(MonthlyData(entries, memoNow)) = 12
    /\ ZeroSeries(monthlyChartData.ingresosData)
    /\ ZeroSeries(monthlyChartData.gastosData)
    /\ ZeroSeries(monthlyChartData.inversionesData)
    /\ categoryTotals = [gastos |-> <<>>, ingresos |-> <<>>, inversiones |-> <<>>]
    /\ chartData = [gastosCategorias |-> <<>>, ingresosCategorias |-> <<>>,
                    inversionesCategorias |-> <<>>, semanasData |-> <<>>]

\* The last entry was deleted in 2025: the aggregates were computed from the
\* empty set by a later run than the first.
C7_Witness == entries = <<>> /\ memoNow = Date(2025, 1, 2)

\* The work week of reference date d as the code computes it agrees with the
\* rule on day numbers.
WorkWeekAgrees(d) ==
  LET start == WeekStartOf(d)
      end   == WeekEndOf(start)
      shift == (Weekday(d) - Thursday + 7) % 7
  IN  /\ DayNumber(start) = DayNumber(d) - shift
      /\ Weekday(start) = Thursday
      /\ DayNumber(start) <= DayNumber(d)
      /\ DayNumber(d) - DayNumber(start) < 7
      /\ DayNumber(end) = DayNumber(start) + 3
      /\ Weekday(end) = 0
      /\ start = CivilFromDays(DayNumber(start))
      /\ end = CivilFromDays(DayNumber(end))

\* C8: the work week of a reference date d starts (weekday(d) - 4 + 7) mod 7
\* days before d, on a Thursday less than 7 days before d, and ends 3 days
\* later, on the Sunday, also over the end of a month or a year; the window
\* holds the entries of Thursday to Sunday of that week and no other.
C8_WorkWeekWindow ==
  /\ WorkWeekAgrees(now)
  /\ WorkWeekAgrees(memoNow)
  /\ currentWeekTotals.period
       = <<FormatDMMM(CivilFromDays(WorkWeekStart(memoNow))),
           FormatDMMM(CivilFromDays(WorkWeekEnd(memoNow)))>>
  /\ currentWeekTotals.ingresos
       = SumAt(entries, InCurrentWeek(entries, memoNow) \cap OfType(entries, "ingreso"))
  /\ \A i \in Positions(entries) :
       /\ WorkWeekAgrees(createLocalDate(entries[i].date))
       /\ i \in InCurrentWeek(entries, memoNow)
            <=> /\ Weekday(entries[i].date) \in {4, 5, 6, 0}
                /\ WorkWeekStart(entries[i].date) = WorkWeekStart(memoNow)
  /\ \A k \in 1..Len(entriesByWeek) :
       LET week == entriesByWeek[k]
       IN  /\ Weekday(week.weekStart) = Thursday
           /\ Weekday(week.weekEnd) = 0
           /\ DayNumber(week.weekEnd) = DayNumber(week.weekStart) + 3
           /\ \A i \in Positions(week.entries) :
                DayNumber(week.weekStart) = WorkWeekStart(week.entries[i].date)

\* Computed on Saturday 2 January 2027: the week runs from Thursday
\* 31 December 2026 to Sunday 3 January 2027 and holds both entries.
C8_Witness ==
  /\ memoNow = Date(2027, 1, 2)
  /\ currentWeekTotals.period = <<<<31, "dic">>, <<3, "ene">>>>
  /\ currentWeekTotals.ingresos = 200

\* C9: the buckets of entriesByWeek are in strictly descending order of
\* weekStart, and the entries of a bucket in descending order of date.
C9_DescendingOrder ==
  /\ \A k \in 1..(Len(entriesByWeek) - 1) :
       DayNumber(entriesByWeek[k].weekStart) > DayNumber(entriesByWeek[k + 1].weekStart)
  /\ \A k \in 1..Len(entriesByWeek) :
       LET es == entriesByWeek[k].entries
       IN  \A i \in 1..(Len(es) - 1) :
             DayNumber(es[i].date) >= DayNumber(es[i + 1].date)

\* The entry of 2 May is held before the entry of 9 May: the buckets are in
\* the other order.
C9_Witness ==
  /\ Len(entries) = 2
  /\ entries[1].date = Date(2024, 5, 2)
  /\ entries[2].date = Date(2024, 5, 9)
  /\ Len(entriesByWeek) = 2
  /\ entriesByWeek[1].weekStart = Date(2024, 5, 9)
  /\ entriesByWeek[2].weekStart = Date(2024, 5, 2)

\* C10 as stated: while the page holds entries, each aggregate it holds is
\* the value computed from scratch over the current entry set.
C10_AggregatesFromScratch ==
  Len(entries) > 0 =>
    /\ totals = Totals(entries)
    /\ currentWeekTotals = CurrentWeekTotals(entries, now)
    /\ categoryTotals = CategoryTotals(entries)
    /\ entriesByWeek = EntriesByWeek(entries)
    /\ chartData = ChartData(CategoryTotals(entries), EntriesByWeek(entries))
    /\ monthlyChartData = MonthlyChartData(entries, now)

\* C11: the memoised computations, the sort of each week's entries included,
\* leave the entries array as it was handed to them: the same elements in
\* the same order.
C11_EntriesNotMutated == entries = snapshot

\* The entries of Thursday 2 May and Sunday 5 May, held in that order: their
\* bucket lists them in the other order, and the array keeps its own.
C11_Witness ==
  /\ Len(entries) = 2
  /\ entries[1].date = Date(2024, 5, 2)
  /\ entries[2].date = Date(2024, 5, 5)
  /\ Len(entriesByWeek) = 1
  /\ entriesByWeek[1].entries[1].date = Date(2024, 5, 5)
  /\ Len(chartData.semanasData) = 1

RECURSIVE FirstOccurrences(_, _)
\* The categories of the entries of one type, each once, in the order in
\* which they first occur in es
FirstOccurrences(es, type) ==
  IF Len(es) = 0 THEN <<>>
  ELSE LET before == FirstOccurrences(SubSeq(es, 1, Len(es) - 1), type)
           last   == es[Len(es)]
       IN  IF last.type = type /\ \A i \in 1..Len(before) : before[i] # last.category
           THEN Append(before, last.category)
           ELSE before

NamesOf(obj) == [i \in 1..Len(obj) |-> obj[i].name]

\* C12 as stated: every category mapping, and the series built from it,
\* lists the categories in the order of their first occurrence in entries,
\* whatever the labels; the series has one element per key, with its value.
C12_FirstOccurrenceOrder ==
  /\ NamesOf(categoryTotals.gastos) = FirstOccurrences(entries, "gasto")
  /\ NamesOf(categoryTotals.ingresos) = FirstOccurrences(entries, "ingreso")
  /\ NamesOf(categoryTotals.inversiones) = FirstOccurrences(entries, "inversion")
  /\ chartData.gastosCategorias = categoryTotals.gastos
  /\ chartData.ingresosCategorias = categoryTotals.ingresos
  /\ chartData.inversionesCategorias = categoryTotals.inversiones

KeysOf(obj) == {obj[i].name : i \in 1..Len(obj)}
ValueOfKey(obj, key) ==
  IF key \in KeysOf(obj)
  THEN LET i == CHOOSE j \in 1..Len(obj) : obj[j].name = key IN obj[i].value
  ELSE 0
MappingOf(ct, type) ==
  CASE type = "gasto" -> ct.gastos
    [] type = "ingreso" -> ct.ingresos
    [] type = "inversion" -> ct.inversiones

GasAgua == <<Labelled("gasto", "Gas", 30), Labelled("gasto", "Gas", 20),
             Labelled("gasto", "Agua", 10)>>

DatedWithin(es, first, last) ==
  {i \in Positions(es) : first <= DayNumber(es[i].date) /\ DayNumber(es[i].date) <= last}

\* C14: currentWeekTotals sums, for each type, the entries dated from the
\* Thursday that starts the work week of the current date to the Sunday
\* that ends it, both days included, and no entry before or after.
C14_CurrentWeekInclusive ==
  LET start   == WorkWeekStart(memoNow)
      end     == WorkWeekEnd(memoNow)
      counted == DatedWithin(entries, start, end)
  IN  /\ currentWeekTotals.gastos = SumAt(entries, counted \cap OfType(entries, "gasto"))
      /\ currentWeekTotals.ingresos = SumAt(entries, counted \cap OfType(entries, "ingreso"))
      /\ currentWeekTotals.inversiones
           = SumAt(entries, counted \cap OfType(entries, "inversion"))
      /\ \A i \in Positions(entries) :
           LET alone == CurrentWeekTotals(<<entries[i]>>, memoNow)
               sum   == alone.gastos + alone.ingresos + alone.inversiones
               day   == DayNumber(entries[i].date)
           IN  /\ day \in {start, end} => sum = entries[i].amount
               /\ (day < start \/ day > end) => sum = 0

\* On Friday 3 May 2024 an expense of Thursday 2 May, the start, and an
\* investment of Sunday 5 May, the end: both are counted.
C14_Witness ==
  /\ memoNow = Date(2024, 5, 3)
  /\ Len(entries) = 2
  /\ \E i \in Positions(entries) :
       entries[i].date = Date(2024, 5, 2) /\ entries[i].type = "gasto"
  /\ \E i \in Positions(entries) :
       entries[i].date = Date(2024, 5, 5) /\ entries[i].type = "inversion"
  /\ currentWeekTotals.gastos = 100
  /\ currentWeekTotals.inversiones = 40

\* The day numbers of the week starts of the buckets ws
WeekStartsOf(ws) == {DayNumber(ws[j].weekStart) : j \in 1..Len(ws)}

\* C15: semanasData has min(8, number of buckets) elements, those of the
\* buckets with the latest week starts, in ascending order of week start,
\* each with its bucket's three sums and the label of its week start.
C15_RecentWeeksAscending ==
  LET n  == Len(entriesByWeek)
      sd == chartData.semanasData
      k  == IF n < 8 THEN n ELSE 8
      bucketOf == [i \in 1..k |->
                    CHOOSE j \in 1..n :
                      /\ Cardinality({b \in WeekStartsOf(entriesByWeek) :
                                        b > DayNumber(entriesByWeek[j].weekStart)}) = k - i
                      /\ \A l \in 1..n : entriesByWeek[l].weekStart = entriesByWeek[j].weekStart
                                             => j <= l]
  IN  /\ Len(sd) = k
      /\ \A i \in 1..k :
           LET week  == entriesByWeek[bucketOf[i]]
               start == CivilFromDays(DayNumber(week.weekStart))
           IN  sd[i] = [name |-> <<start.d, start.m>>, ingresos |-> week.ingresos,
                        gastos |-> week.gastos, inversiones |-> week.inversiones]

\* Nine weeks have entries, the latest entered first: the series has the
\* eight latest, the oldest of them first.
C15_Witness ==
  /\ Len(entriesByWeek) = 9
  /\ entries[1] = ChartEntry(9)
  /\ Len(chartData.semanasData) = 8
  /\ chartData.semanasData[1].ingresos + chartData.semanasData[1].gastos
       + chartData.semanasData[1].inversiones = 20
  /\ chartData.semanasData[8].gastos = 90

\* The day numbers of the first and of the last day of month m of year y
FirstDayOfMonth(y, m) == DaysFromCivil(y, m, 1)
LastDayOfMonth(y, m) ==
  (IF m = 12 THEN DaysFromCivil(y + 1, 1, 1) ELSE DaysFromCivil(y, m + 1, 1)) - 1

MonthValue(type, m) ==
  SumAt(entries, DatedWithin(entries, FirstDayOfMonth(memoNow.y, m),
                                      LastDayOfMonth(memoNow.y, m))
                   \cap OfType(entries, type))

\* C16: the bucket of each month of the current year sums, for each type,
\* the entries dated from the first to the last day of the month, both
\* included; the three monthly series have the 12 month labels in one
\* order, each with the value of its bucket's field.
C16_MonthInclusive ==
  LET monthlyData == MonthlyData(entries, memoNow)
  IN  /\ Len(monthlyData) = 12
      /\ \A m \in 1..12 :
           /\ monthlyData[m].ingresos = MonthValue("ingreso", m)
           /\ monthlyData[m].gastos = MonthValue("gasto", m)
           /\ monthlyData[m].inversiones = MonthValue("inversion", m)
           /\ monthlyChartData.ingresosData[m]
                = [x |-> monthlyData[m].month, y |-> MonthValue("ingreso", m)]
           /\ monthlyChartData.gastosData[m]
                = [x |-> monthlyData[m].month, y |-> MonthValue("gasto", m)]
           /\ monthlyChartData.inversionesData[m]
                = [x |-> monthlyData[m].month, y |-> MonthValue("inversion", m)]
      /\ Len(monthlyChartData.ingresosData) = 12
      /\ Len(monthlyChartData.gastosData) = 12
      /\ Len(monthlyChartData.inversionesData) = 12

\* An expense on 29 February 2024, the last day of the month, and an income
\* on 3 March: February holds the expense and March the income.
C16_Witness ==
  /\ memoNow.y = 2024
  /\ Len(entries) = 2
  /\ monthlyChartData.gastosData[2] = [x |-> "feb", y |-> 100]
  /\ monthlyChartData.gastosData[3] = [x |-> "mar", y |-> 0]
  /\ monthlyChartData.ingresosData[3] = [x |-> "mar", y |-> 100]

\* The day numbers of the dates of the entries es
EntryDays(es) == {DayNumber(es[i].date) : i \in Positions(es)}
Earliest(days) == CHOOSE d \in days : \A e \in days : d <= e
Latest(days) == CHOOSE d \in days : \A e \in days : d >= e

\* C17: for a non-empty entry set the weeks entriesByWeek enumerates are
\* the Thursdays from the work-week start of the earliest date to the
\* work-week start of the latest date, both included, 7 days apart; the work
\* week of every entry date is among them.
C17_WeeksEnumerated ==
  Len(entries) > 0 =>
    LET weeks == WeeksOf(entries)
        first == WorkWeekStart(CivilFromDays(Earliest(EntryDays(entries))))
        last  == WorkWeekStart(CivilFromDays(Latest(EntryDays(entries))))
    IN  /\ Len(weeks) = (last - first) \div 7 + 1
        /\ \A k \in 1..Len(weeks) :
             /\ DayNumber(weeks[k]) = first + 7 * (k - 1)
             /\ Weekday(weeks[k]) = Thursday
             /\ weeks[k] = CivilFromDays(DayNumber(weeks[k]))
        /\ DayNumber(weeks[Len(weeks)]) = last
        /\ \A i \in Positions(entries) :
             \E k \in 1..Len(weeks) :
               DayNumber(weeks[k]) = WorkWeekStart(entries[i].date)

\* Entries in five weeks, the latest held first, and none in the week of
\* 23 May between them: six weeks are enumerated for five buckets.
C17_Witness ==
  /\ Len(entries) = 5
  /\ entries[1] = ChartEntry(5)
  /\ Len(WeeksOf(entries)) = 6
  /\ Len(entriesByWeek) = 5
  /\ WeeksOf(entries)[4] = Date(2024, 5, 23)

Occurrences(s, e) == Cardinality({i \in 1..Len(s) : s[i] = e})
ThursdayToSunday(es) == {i \in Positions(es) : Weekday(es[i].date) \in {4, 5, 6, 0}}

RECURSIVE SumOverWeeks(_, _)
\* The sum of one type's field over the buckets ws
SumOverWeeks(ws, type) ==
  IF Len(ws) = 0 THEN 0
  ELSE (CASE type = "gasto" -> ws[1].gastos
          [] type = "ingreso" -> ws[1].ingresos
          [] type = "inversion" -> ws[1].inversiones)
       + SumOverWeeks(Tail(ws), type)

\* C18: an entry is in at most one week bucket; an entry dated Thursday to
\* Sunday is in exactly one, that of the work week of its date, and an entry
\* dated Monday to Wednesday in none; for each type the sums of the buckets
\* add up to the total of the entries dated Thursday to Sunday.
C18_WeekPartition ==
  /\ \A i \in Positions(entries) :
       LET e    == entries[i]
           held == {k \in 1..Len(entriesByWeek) :
                     Occurrences(entriesByWeek[k].entries, e) > 0}
       IN  IF i \in ThursdayToSunday(entries)
           THEN \E k \in 1..Len(entriesByWeek) :
                  /\ held = {k}
                  /\ DayNumber(entriesByWeek[k].weekStart) = WorkWeekStart(e.date)
                  /\ Occurrences(entriesByWeek[k].entries, e) = Occurrences(entries, e)
           ELSE held = {}
  /\ \A type \in Types :
       SumOverWeeks(entriesByWeek, type)
         = SumAt(entries, ThursdayToSunday(entries) \cap OfType(entries, type))

\* Expenses of Monday 6 May (40) and Thursday 9 May (100): the total is 140
\* and the one bucket holds 100.
C18_Witness ==
  /\ totals.gastos = 140
  /\ Len(entriesByWeek) = 1
  /\ entriesByWeek[1].gastos = 100
  /\ Len(entriesByWeek[1].entries) = 1
  /\ SumOverWeeks(entriesByWeek, "gasto") = 100

RECURSIVE SumOfSeries(_)
\* The sum of the values of a monthly series
SumOfSeries(series) ==
  IF Len(series) = 0 THEN 0 ELSE series[1].y + SumOfSeries(Tail(series))

InYear(es, year) == {i \in Positions(es) : CivilFromDays(DayNumber(es[i].date)).y = year}

\* The months whose bucket counts the entry e, for the year of nowT
MonthsCounting(e, nowT) ==
  LET alone == MonthlyData(<<e>>, nowT)
  IN  {m \in 1..Len(alone) : alone[m].ingresos + alone[m].gastos + alone[m].inversiones > 0}

\* C19: an entry dated in the current year is counted in exactly one of the
\* 12 month buckets and an entry of another year in none; for each type the
\* 12 monthly values add up to the total of the entries of the current year.
C19_MonthPartition ==
  /\ \A i \in Positions(entries) :
       Cardinality(MonthsCounting(entries[i], memoNow))
         = IF i \in InYear(entries, memoNow.y) THEN 1 ELSE 0
  /\ SumOfSeries(monthlyChartData.ingresosData)
       = SumAt(entries, InYear(entries, memoNow.y) \cap OfType(entries, "ingreso"))
  /\ SumOfSeries(monthlyChartData.gastosData)
       = SumAt(entries, InYear(entries, memoNow.y) \cap OfType(entries, "gasto"))
  /\ SumOfSeries(monthlyChartData.inversionesData)
       = SumAt(entries, InYear(entries, memoNow.y) \cap OfType(entries, "inversion"))

\* Incomes of 31 December 2026 and 3 January 2027, computed in 2027: the
\* months add up to 100, the total is 200.
C19_Witness ==
  /\ memoNow.y = 2027
  /\ totals.ingresos = 200
  /\ SumOfSeries(monthlyChartData.ingresosData) = 100
  /\ MonthsCounting(entries[1], memoNow) \cup MonthsCounting(entries[2], memoNow) = {1}

FourValues(t) == <<t.ingresos, t.gastos, t.inversiones, t.balance>>

\* C20: when entriesByWeek has a bucket that starts on the work-week start
\* of the current date, the income, expense, investment and balance of
\* currentWeekTotals are that bucket's; when it has none, they are all 0.
C20_CurrentWeekIsItsBucket ==
  LET current == {k \in 1..Len(entriesByWeek) :
                    DayNumber(entriesByWeek[k].weekStart) = WorkWeekStart(memoNow)}
  IN  IF current = {}
      THEN FourValues(currentWeekTotals) = <<0, 0, 0, 0>>
      ELSE \A k \in current :
             FourValues(currentWeekTotals) = FourValues(entriesByWeek[k])

\* Computed on Saturday 2 March 2024 with an expense of 29 February and an
\* income of 3 March: the one bucket is the current week's.
C20_Witness ==
  /\ memoNow = Date(2024, 3, 2)
  /\ Len(entriesByWeek) = 1
  /\ entriesByWeek[1].weekStart = Date(2024, 2, 29)
  /\ FourValues(currentWeekTotals) = <<100, 100, 0, 100>>
  /\ FourValues(entriesByWeek[1]) = <<100, 100, 0, 100>>

\* C21: at most one call of addEntry is in flight: while one is awaited no
\* step starts another, whatever handleAddEntry invocations and addEntry
\* completions are interleaved.
C21_OneCallInFlight ==
  [][/\ Len(pending') <= 1
     /\ Len(pending) > 0 => Len(pending') <= Len(pending)]_vars

\* handleAddEntry was invoked while a call was awaited, and returned.
C21_Witness ==
  /\ lastEvent = "returned"
  /\ Len(pending) = 1
  /\ isSubmitting
  /\ ~GuardReturns(newEntry, FALSE)

\* C22: isSubmitting is true only while a call of addEntry is awaited, and
\* once it is true it is false again later, however addEntry settles.
C22_SubmittingIsReset ==
  /\ [](isSubmitting => Len(pending) > 0)
  /\ isSubmitting ~> ~isSubmitting

\* addEntry threw: isSubmitting is false and nothing is awaited.
C22_Witness ==
  /\ lastEvent = "throws"
  /\ ~isSubmitting
  /\ pending = <<>>
  /\ rendered.isSubmitting

\* C23: when addEntry returns a truthy result the form becomes type gasto,
\* empty category, amount and description, and today's date; when it
\* returns a falsy result or throws the form stays as it is; no other step
\* than an edit of a field changes the form.
C23_FormResetOnSuccessOnly ==
  [][/\ (Len(pending') < Len(pending) /\ lastEvent' = "truthy")
          => newEntry' = [type |-> "gasto", category |-> "", amount |-> "",
                          date |-> now, description |-> ""]
     /\ (Len(pending') < Len(pending) /\ lastEvent' \in {"falsy", "throws"})
          => /\ newEntry' = newEntry
             /\ newEntry.category = Head(pending).category
             /\ newEntry.type = Head(pending).type
             /\ newEntry.date = Head(pending).date
     /\ newEntry' # newEntry => lastEvent' \in {"edited", "truthy"}
     /\ Len(pending') < Len(pending)
          => Len(entries') = Len(entries) + (IF lastEvent' = "truthy" THEN 1 ELSE 0)]_vars

\* addEntry returned a falsy result for an income of 2 May with a note: the
\* form holds what was entered.
C23_Witness ==
  /\ lastEvent = "falsy"
  /\ newEntry = [type |-> "ingreso", category |-> "Otros", amount |-> "100",
                  date |-> Date(2024, 5, 2), description |-> "nota"]
  /\ entries = <<>>

====
